---- MODULE Spec2Model ----
(***************************************************************************)
(* The offline download and cache subsystem of the audio library:          *)
(* DownloadManager (download queue, concurrency cap, storage admission),   *)
(* StorageManager (IndexedDB stores, LRU eviction) and the ArchiveFetcher  *)
(* transfer loop.  Every `await` of the TypeScript source is a suspension  *)
(* point: a coroutine's code between two awaits is one atomic action.      *)
(* An IndexedDB request takes effect when it is issued (requests on one    *)
(* store are served in the order they were issued).  Sizes are in MB.      *)
(***************************************************************************)
EXTENDS Integers, Sequences, FiniteSets, TLC

\* ---------------------------------------------------------------- bounds
NumLectures == 3      \* lectures the user can ask for
MaxInv == 3           \* startDownload invocations in one session
MaxOps == 3           \* calls of the public API in one behaviour
QueueMultipleCost == 2 \* what one queueMultiple call counts for in MaxOps
MaxOpsAfterReload == 1 \* calls of the public API after a page reload
MaxRestarts == 1      \* page reloads in one behaviour
MaxCalls == 1         \* asynchronous API calls in progress at once
MaxEarlyOps == 0      \* API calls begun before loadExistingTasks has finished
MaxEarlyCalls == 2    \* queueDownload calls made before the startup load has finished
MaxFaults == 1        \* network and storage failures, before the reload
MaxTargetSteps == 7   \* eviction targets tried: up to MaxTargetSteps half chunks
MaxBlobChunks == 3    \* largest cached blob of an eviction inventory, in chunks
MaxStamp == 3         \* lastAccessed values of an eviction inventory
ChunkMB == 10         \* size of one chunk delivered by reader.read()
QuotaMB == 100        \* navigator.storage.estimate().quota
OtherUsedMB == 10     \* usage that is not the audio cache

\* ------------------------------------------------------- program constants
MAX_CONCURRENT_DOWNLOADS == 2
STORAGE_BUFFER_MB == 50

Lectures == 1..NumLectures
Invs == 1..MaxInv

\* The size a lecture record declares (lecture.fileSize, from the archive's
\* metadata) and the body sizes the server may actually deliver.
FileSize(l) == IF l = 1 THEN 2 * ChunkMB ELSE ChunkMB
\* What the archive server delivers for a lecture: the body, and the
\* content-length header (0: absent).  The last lecture's metadata is stale and
\* its response carries no content-length.
BodySize(l) == IF l = NumLectures THEN 2 * ChunkMB ELSE FileSize(l)
ContentLength(l) == IF l = NumLectures THEN 0 ELSE BodySize(l)
\* The sizes freeUpSpace is asked for.
FreeRequests == {QuotaMB}

VARIABLES
  tasks,            \* state.tasks: lectureId -> DownloadTask (NoTask: no entry)
  taskOrder,        \* insertion order of the keys of state.tasks (a JS Map)
  initTasks,        \* contents of initialState.tasks while state.tasks is another Map
  initOrder,        \* its key order
  aliased,          \* state.tasks is the very Map object of initialState
  activeDownloads,  \* state.activeDownloads (one Set object for the whole session)
  isPaused,         \* state.isPaused
  abortControllers, \* lectureId -> invocation whose AbortController is bound (0: none)
  inv,              \* the startDownload invocations (coroutines)
  nInv,             \* invocations created so far in this session
  calls,            \* the asynchronous API calls in progress: [op, lec, pc, arg]
  thrown,           \* lectures whose latest queueDownload call rejected
  loaded,           \* loadExistingTasks has finished
  dbDownloads,      \* IndexedDB store 'downloads'
  audioCache,       \* IndexedDB store 'audioCache': lectureId -> [size, lastAccessed]
  lectures,         \* keys of the IndexedDB store 'lectures'
  now,              \* Date.now(), advanced by every cache write
  ops,              \* public API calls made so far
  faults,           \* failures injected so far
  evictLog,         \* the latest pass of evictToFreeSpace: target, store before and after
  restarts,         \* page reloads so far
  cancelled,        \* lectures whose cancelDownload has returned, not enqueued since
  enqOrder          \* the lectures enqueued, in the order in which their tasks were created

vars == <<tasks, taskOrder, initTasks, initOrder, aliased, activeDownloads, isPaused,
          abortControllers, inv, nInv, calls, thrown, loaded, dbDownloads, audioCache,
          lectures, now, ops, faults, evictLog, restarts, cancelled, enqOrder>>

\* ------------------------------------------------------------------ values
NoTask == [status |-> "none", progress |-> 0, bytesDownloaded |-> 0,
           totalBytes |-> 0, error |-> "none"]
NoBlob == [size |-> 0, lastAccessed |-> 0]
NoInv == [lec |-> 0, pc |-> "none", aborted |-> FALSE, loaded |-> 0, total |-> 0,
          size |-> 0]

NewTask(l) == [status |-> "pending", progress |-> 0, bytesDownloaded |-> 0,
               totalBytes |-> FileSize(l), error |-> "none"]

EmptyTasks == [l \in Lectures |-> NoTask]
EmptyCache == [l \in Lectures |-> NoBlob]
NoEviction == [ran |-> FALSE, target |-> 0, before |-> EmptyCache, after |-> EmptyCache]

Call(op, l, pc) == [op |-> op, lec |-> l, pc |-> pc]

Min(a, b) == IF a < b THEN a ELSE b

\* { ...task, ...updates }
Merge(t, upd) == [f \in DOMAIN t |-> IF f \in DOMAIN upd THEN upd[f] ELSE t[f]]

\* updateTask, in-memory half: the entry is replaced only when it exists.
UpdateTask(T, l, upd) ==
  IF T[l] # NoTask THEN [T EXCEPT ![l] = Merge(T[l], upd)] ELSE T

\* updateTask, persistent half: storageManager.saveDownloadTask(updatedTask).
SaveUpdated(D, T, l, upd) ==
  IF T[l] # NoTask THEN [D EXCEPT ![l] = Merge(T[l], upd)] ELSE D

\* Map.set on the key order: an existing key keeps its place.
OrderSet(ord, l) ==
  IF \E k \in 1..Len(ord) : ord[k] = l THEN ord ELSE Append(ord, l)

OrderDelete(ord, l) == SelectSeq(ord, LAMBDA x : x # l)

\* ------------------------------------------------------------ processQueue
\* The lecture ids processQueue hands to startDownload, in order.
QueueStarts(T, ord, act, paused) ==
  LET pendingTasks == SelectSeq(ord, LAMBDA l : T[l].status = "pending")
      slotsAvailable == MAX_CONCURRENT_DOWNLOADS - Cardinality(act)
  IN IF paused THEN << >>
     ELSE IF slotsAvailable <= 0 \/ Len(pendingTasks) = 0 THEN << >>
     ELSE SubSeq(pendingTasks, 1, Min(slotsAvailable, Len(pendingTasks)))

\* startDownload up to its first await (getLecture): a new suspended invocation.
Spawn(I, n, starts) ==
  [i \in Invs |->
     IF i > n /\ i <= n + Len(starts)
     THEN [NoInv EXCEPT !.lec = starts[i - n], !.pc = "getLecture"]
     ELSE I[i]]

\* processQueue as the tail of an action: T, ord, act, paused are the values the
\* action leaves; I is the invocation table it leaves.
ProcessQueue(T, ord, act, paused, I) ==
  LET starts == QueueStarts(T, ord, act, paused)
  IN /\ nInv + Len(starts) <= MaxInv
     /\ inv' = Spawn(I, nInv, starts)
     /\ nInv' = nInv + Len(starts)

\* ----------------------------------------------------------------- storage
AudioSize(C) ==
  LET RECURSIVE Sum(_)
      Sum(S) == IF S = {} THEN 0
                ELSE LET x == CHOOSE x \in S : TRUE IN C[x].size + Sum(S \ {x})
  IN Sum({l \in Lectures : C[l] # NoBlob})

\* getStorageStats: available = quota - used.
Available(C) == QuotaMB - (OtherUsedMB + AudioSize(C))

\* checkStorageAvailability
\* The admission test without the safety buffer.
CheckStorageAvailability_NoBuffer(C, requiredBytes) ==
  Available(C) > requiredBytes

CheckStorageAvailability(C, requiredBytes) ==
  Available(C) > requiredBytes + STORAGE_BUFFER_MB

Init ==
  /\ tasks = EmptyTasks
  /\ taskOrder = << >>
  /\ initTasks = EmptyTasks
  /\ initOrder = << >>
  /\ aliased = TRUE
  /\ activeDownloads = {}
  /\ isPaused = FALSE
  /\ abortControllers = [l \in Lectures |-> 0]
  /\ inv = [i \in Invs |-> NoInv]
  /\ nInv = 0
  /\ calls = {}
  /\ thrown = {}
  /\ loaded = FALSE
  /\ dbDownloads = EmptyTasks
  /\ audioCache = EmptyCache
  /\ lectures = Lectures
  /\ now = 1
  /\ ops = 0
  /\ faults = 0
  /\ evictLog = NoEviction
  /\ restarts = 0
  /\ cancelled = {}
  /\ enqOrder = << >>

\* A public API call may begin; an asynchronous one needs a free call slot.
MayCall == ops < MaxOps /\ (loaded \/ ops < MaxEarlyOps)
MayCallAsync == MayCall /\ Cardinality(calls) < MaxCalls

\* ------------------------------------------------------------ startup load
\* loadExistingTasks: getAllDownloads (key order), reset interrupted downloads,
\* then replace state.tasks by the new Map.
\* A load that keeps interrupted records as they were persisted.
LoadedTask_NoReset(t) == t

\* A load that resets the status of an interrupted record but not its progress.
LoadedTask_KeepProgress(t) ==
  IF t.status = "downloading" THEN [t EXCEPT !.status = "pending"] ELSE t

LoadedTask(t) ==
  IF t.status = "downloading" THEN [t EXCEPT !.status = "pending", !.progress = 0]
  ELSE t

KeyOrder(D) ==
  LET RECURSIVE Build(_)
      Build(k) == IF k > NumLectures THEN << >>
                  ELSE IF D[k] # NoTask THEN <<k>> \o Build(k + 1)
                  ELSE Build(k + 1)
  IN Build(1)

LoadExistingTasks ==
  /\ ~loaded
  /\ loaded' = TRUE
  /\ tasks' = [l \in Lectures |-> LoadedTask(dbDownloads[l])]
  /\ taskOrder' = KeyOrder(dbDownloads)
  /\ initTasks' = IF aliased THEN tasks ELSE initTasks
  /\ initOrder' = IF aliased THEN taskOrder ELSE initOrder
  /\ aliased' = FALSE
  /\ UNCHANGED <<activeDownloads, isPaused, abortControllers, inv, nInv, calls, thrown,
                 dbDownloads, audioCache, lectures, now, ops, faults, evictLog, restarts, cancelled, enqOrder>>

\* ---------------------------------------------- queueDownload, queueMultiple
QueueOps == {"queueDownload", "queueMultiple"}

\* queueMultiple walks the lectures of the collection in order.  A call of
\* queueDownload for a completed or downloading task returns at once; NextToQueue
\* is the first lecture after l whose queueDownload reaches its first await
\* (0: the loop has ended).
NextToQueue(T, l) ==
  LET S == {k \in Lectures : k > l /\ T[k].status \notin {"completed", "downloading"}}
  IN IF S = {} THEN 0 ELSE CHOOSE k \in S : \A j \in S : k <= j

\* A queueMultiple that gives up when one of its queueDownload calls settles.
Advance_Abort(c, T) == calls \ {c}

\* The calls left after the queueDownload of lecture l, made by call c, has
\* settled: queueMultiple goes on to its next lecture.
Advance(c, T) ==
  LET k == IF c.op = "queueMultiple" THEN NextToQueue(T, c.lec) ELSE 0
  IN IF k = 0 THEN calls \ {c} ELSE (calls \ {c}) \cup {Call("queueMultiple", k, "stats")}

\* A queueDownload without the early return.
QueueDownloadBegin_NoCheck(l) ==
  /\ MayCallAsync
  /\ ops' = ops + 1
  /\ thrown' = thrown \ {l}
  /\ cancelled' = cancelled \ {l}
  /\ calls' = calls \cup {Call("queueDownload", l, "stats")}
  /\ UNCHANGED <<tasks, taskOrder, initTasks, initOrder, aliased, activeDownloads,
                 isPaused, abortControllers, inv, nInv, loaded, dbDownloads, audioCache,
                 lectures, now, faults, evictLog, restarts, enqOrder>>

\* Entry: the early return for a completed or downloading task, then the await
\* of checkStorageAvailability.
QueueDownloadBegin(l) ==
  /\ MayCallAsync
  /\ ops' = ops + 1
  /\ thrown' = thrown \ {l}
  /\ cancelled' = cancelled \ {l}
  /\ calls' = IF tasks[l].status \in {"completed", "downloading"} THEN calls
              ELSE calls \cup {Call("queueDownload", l, "stats")}
  /\ UNCHANGED <<tasks, taskOrder, initTasks, initOrder, aliased, activeDownloads,
                 isPaused, abortControllers, inv, nInv, loaded, dbDownloads, audioCache,
                 lectures, now, faults, evictLog, restarts, enqOrder>>

QueueMultipleBegin ==
  LET k == NextToQueue(tasks, 0)
  IN /\ MayCallAsync
     /\ ops + QueueMultipleCost <= MaxOps
     /\ ops' = ops + QueueMultipleCost
     /\ thrown' = {}
     /\ cancelled' = {}
     /\ calls' = IF k = 0 THEN calls ELSE calls \cup {Call("queueMultiple", k, "stats")}
     /\ UNCHANGED <<tasks, taskOrder, initTasks, initOrder, aliased, activeDownloads,
                    isPaused, abortControllers, inv, nInv, loaded, dbDownloads,
                    audioCache, lectures, now, faults, evictLog, restarts, enqOrder>>

\* The storage statistics arrive: throw (queueMultiple catches and goes on), or
\* create the pending task and issue its save.
QueueDownloadAdmit(op, l) ==
  LET c == Call(op, l, "stats")
  IN /\ c \in calls
     /\ IF CheckStorageAvailability(audioCache, FileSize(l))
        THEN /\ tasks' = [tasks EXCEPT ![l] = NewTask(l)]
             /\ taskOrder' = OrderSet(taskOrder, l)
             /\ dbDownloads' = [dbDownloads EXCEPT ![l] = NewTask(l)]
             /\ calls' = (calls \ {c}) \cup {Call(op, l, "save")}
             /\ enqOrder' = OrderSet(enqOrder, l)
             /\ UNCHANGED thrown
        ELSE /\ calls' = Advance(c, tasks)
             /\ thrown' = thrown \cup {l}
             /\ UNCHANGED <<tasks, taskOrder, dbDownloads, enqOrder>>
     /\ UNCHANGED <<initTasks, initOrder, aliased, activeDownloads, isPaused,
                    abortControllers, inv, nInv, loaded, audioCache, lectures, now, ops,
                    faults, evictLog, restarts, cancelled>>

\* The save has settled: processQueue.
QueueDownloadFinish(op, l) ==
  LET c == Call(op, l, "save")
  IN /\ c \in calls
     /\ calls' = Advance(c, tasks)
     /\ ProcessQueue(tasks, taskOrder, activeDownloads, isPaused, inv)
     /\ UNCHANGED <<tasks, taskOrder, initTasks, initOrder, aliased, activeDownloads,
                    isPaused, abortControllers, thrown, loaded, dbDownloads, audioCache,
                    lectures, now, ops, faults, evictLog, restarts, cancelled, enqOrder>>

\* ------------------------------------------------------------ startDownload
Done(i) == [NoInv EXCEPT !.pc = "done"]

\* A finally block that releases the slot and does not call processQueue.
Finally_NoQueue(i, T) ==
  LET l == inv[i].lec
  IN /\ abortControllers' = [abortControllers EXCEPT ![l] = 0]
     /\ activeDownloads' = activeDownloads \ {l}
     /\ inv' = [inv EXCEPT ![i] = Done(i)]
     /\ nInv' = nInv

\* A finally block that also aborts every other transfer in flight.
Finally_AbortSiblings(i, T) ==
  LET l == inv[i].lec
      act == activeDownloads \ {l}
      I == [j \in Invs |-> IF j = i THEN Done(i)
                           ELSE IF inv[j].pc = "none" THEN inv[j]
                           ELSE [inv[j] EXCEPT !.aborted = TRUE]]
  IN /\ abortControllers' = [abortControllers EXCEPT ![l] = 0]
     /\ activeDownloads' = act
     /\ ProcessQueue(T, taskOrder, act, isPaused, I)

\* The finally block: drop the controller bound to the lecture, release the
\* slot, processQueue.  T is the task map the try/catch left.
Finally(i, T) ==
  LET l == inv[i].lec
      act == activeDownloads \ {l}
  IN /\ abortControllers' = [abortControllers EXCEPT ![l] = 0]
     /\ activeDownloads' = act
     /\ ProcessQueue(T, taskOrder, act, isPaused, [inv EXCEPT ![i] = Done(i)])

\* A failure that leaves no message on the task.
FailedUpdate_NoError(msg) == [status |-> "failed", error |-> "none"]

\* A catch (or the completion) followed by finally: one updateTask, then Finally.
Settle(i, upd) ==
  LET l == inv[i].lec
  IN /\ tasks' = UpdateTask(tasks, l, upd)
     /\ dbDownloads' = SaveUpdated(dbDownloads, tasks, l, upd)
     /\ Finally(i, tasks')

AbortErrorUpdate == [status |-> "paused", error |-> "Download cancelled"]
FailedUpdate(msg) == [status |-> "failed", error |-> msg]

\* A startDownload that does not look at the result of getLecture.
StartDownloadLecture_NoLookup(i) ==
  LET l == inv[i].lec
  IN /\ inv[i].pc = "getLecture"
     /\ abortControllers' = [abortControllers EXCEPT ![l] = i]
     /\ tasks' = UpdateTask(tasks, l, [status |-> "downloading"])
     /\ dbDownloads' = SaveUpdated(dbDownloads, tasks, l, [status |-> "downloading"])
     /\ activeDownloads' = activeDownloads \cup {l}
     /\ inv' = [inv EXCEPT ![i].pc = "read", ![i].size = BodySize(l),
                           ![i].total = ContentLength(l)]
     /\ UNCHANGED <<taskOrder, initTasks, initOrder, aliased, isPaused, nInv, calls,
                    thrown, loaded, audioCache, lectures, now, ops,
                    faults, evictLog, restarts, cancelled, enqOrder>>

\* getLecture has resolved: fail for a missing lecture, else bind the
\* controller, mark the task downloading, take the slot and call
\* fetchAudioWithProgress, which suspends in fetch and then in reader.read().
StartDownloadLecture(i) ==
  LET l == inv[i].lec
  IN /\ inv[i].pc = "getLecture"
     /\ IF l \notin lectures
        THEN /\ tasks' = UpdateTask(tasks, l, FailedUpdate("Lecture not found"))
             /\ dbDownloads' = SaveUpdated(dbDownloads, tasks, l,
                                           FailedUpdate("Lecture not found"))
             /\ inv' = [inv EXCEPT ![i] = Done(i)]
             /\ UNCHANGED <<abortControllers, activeDownloads>>
        ELSE /\ abortControllers' = [abortControllers EXCEPT ![l] = i]
             /\ tasks' = UpdateTask(tasks, l, [status |-> "downloading"])
             /\ dbDownloads' = SaveUpdated(dbDownloads, tasks, l,
                                           [status |-> "downloading"])
             /\ activeDownloads' = activeDownloads \cup {l}
             /\ inv' = [inv EXCEPT ![i].pc = "read", ![i].size = BodySize(l),
                                   ![i].total = ContentLength(l)]
     /\ UNCHANGED <<taskOrder, initTasks, initOrder, aliased, isPaused, nInv, calls,
                    thrown, loaded, audioCache, lectures, now, ops,
                    faults, evictLog, restarts, cancelled, enqOrder>>

\* getLecture has resolved with a record whose fileUrl does not match
\* /download/<identifier>/<file>: the controller is bound, the task marked
\* downloading and the slot taken, then the try block throws 'Invalid file URL'
\* before any await, so catch and finally run in the same turn.
StartDownloadInvalidUrl(i) ==
  /\ inv[i].pc = "getLecture"
  /\ inv[i].lec \in lectures
  /\ faults < MaxFaults
  /\ faults' = faults + 1
  /\ Settle(i, FailedUpdate("Invalid file URL"))
  /\ UNCHANGED <<taskOrder, initTasks, initOrder, aliased, isPaused, calls, thrown,
                 loaded, audioCache, lectures, now, ops, evictLog, restarts, cancelled, enqOrder>>

Progress(ld, total) == IF total > 0 THEN (ld * 100) \div total ELSE 0

\* reader.read() delivers a chunk; onProgress runs only when total > 0.
ReadChunk(i) ==
  LET l == inv[i].lec
      ld == inv[i].loaded + ChunkMB
      upd == [progress |-> Progress(ld, inv[i].total), bytesDownloaded |-> ld,
              totalBytes |-> inv[i].total]
  IN /\ inv[i].pc = "read"
     /\ ~inv[i].aborted
     /\ inv[i].loaded < inv[i].size
     /\ inv' = [inv EXCEPT ![i].loaded = ld]
     /\ IF inv[i].total > 0
        THEN /\ tasks' = UpdateTask(tasks, l, upd)
             /\ dbDownloads' = SaveUpdated(dbDownloads, tasks, l, upd)
        ELSE UNCHANGED <<tasks, dbDownloads>>
     /\ UNCHANGED <<taskOrder, initTasks, initOrder, aliased, activeDownloads, isPaused,
                    abortControllers, nInv, calls, thrown, loaded,
                    audioCache, lectures, now, ops, faults, evictLog, restarts, cancelled, enqOrder>>

\* The aborted signal rejects fetch or reader.read() with an AbortError.
TransferAbort(i) ==
  /\ inv[i].pc = "read"
  /\ inv[i].aborted
  /\ Settle(i, AbortErrorUpdate)
  /\ UNCHANGED <<taskOrder, initTasks, initOrder, aliased, isPaused, calls, thrown,
                 loaded, audioCache, lectures, now, ops, faults, evictLog, restarts, cancelled, enqOrder>>

\* A network error or a response that is not ok.
TransferFail(i) ==
  /\ inv[i].pc = "read"
  /\ ~inv[i].aborted
  /\ faults < MaxFaults
  /\ faults' = faults + 1
  /\ Settle(i, FailedUpdate("Failed to download"))
  /\ UNCHANGED <<taskOrder, initTasks, initOrder, aliased, isPaused, calls, thrown,
                 loaded, audioCache, lectures, now, ops, evictLog, restarts, cancelled, enqOrder>>

\* The stream is done: the blob is built and cacheAudio issues its put.
ReadDone(i) ==
  LET l == inv[i].lec
  IN /\ inv[i].pc = "read"
     /\ ~inv[i].aborted
     /\ inv[i].loaded = inv[i].size
     /\ audioCache' = [audioCache EXCEPT ![l] = [size |-> inv[i].size,
                                                 lastAccessed |-> now]]
     /\ now' = now + 1
     /\ inv' = [inv EXCEPT ![i].pc = "cacheAudio", ![i].loaded = 0, ![i].total = 0]
     /\ UNCHANGED <<tasks, taskOrder, initTasks, initOrder, aliased, activeDownloads,
                 isPaused, abortControllers, nInv, calls, thrown, loaded, dbDownloads,
                    lectures, ops, faults, evictLog, restarts, cancelled, enqOrder>>

\* The put of cacheAudio is refused (the store is full): the catch marks the
\* task failed.
CacheAudioFail(i) ==
  /\ inv[i].pc = "read"
  /\ ~inv[i].aborted
  /\ faults < MaxFaults
  /\ faults' = faults + 1
  /\ inv[i].loaded = inv[i].size
  /\ Settle(i, FailedUpdate("QuotaExceededError"))
  /\ UNCHANGED <<taskOrder, initTasks, initOrder, aliased, isPaused, calls, thrown,
                 loaded, audioCache, lectures, now, ops, evictLog, restarts, cancelled, enqOrder>>

\* cacheAudio has settled: saveLecture issues its put of the lecture record.
CacheAudioDone(i) ==
  /\ inv[i].pc = "cacheAudio"
  /\ lectures' = lectures \cup {inv[i].lec}
  /\ inv' = [inv EXCEPT ![i].pc = "saveLecture"]
  /\ UNCHANGED <<tasks, taskOrder, initTasks, initOrder, aliased, activeDownloads,
                 isPaused, abortControllers, nInv, calls, thrown, loaded, dbDownloads,
                 audioCache, now, ops, faults, evictLog, restarts, cancelled, enqOrder>>

\* saveLecture has settled: the task is marked completed, then finally.
SaveLectureDone(i) ==
  /\ inv[i].pc = "saveLecture"
  /\ Settle(i, [status |-> "completed", progress |-> 100,
                bytesDownloaded |-> inv[i].size])
  /\ UNCHANGED <<taskOrder, initTasks, initOrder, aliased, isPaused, calls, thrown,
                 loaded, audioCache, lectures, now, ops, faults, evictLog, restarts, cancelled, enqOrder>>

\* ------------------------------------------------- pause, resume, retry
Abort(I, c) == IF c = 0 THEN I ELSE [I EXCEPT ![c].aborted = TRUE]

PauseDownload(l) ==
  /\ MayCall
  /\ tasks[l] # NoTask \/ abortControllers[l] # 0
  /\ ops' = ops + 1
  /\ inv' = Abort(inv, abortControllers[l])
  /\ tasks' = UpdateTask(tasks, l, [status |-> "paused"])
  /\ dbDownloads' = SaveUpdated(dbDownloads, tasks, l, [status |-> "paused"])
  /\ UNCHANGED <<taskOrder, initTasks, initOrder, aliased, activeDownloads, isPaused,
                 abortControllers, nInv, calls, thrown, loaded, audioCache, lectures,
                 now, faults, evictLog, restarts, cancelled, enqOrder>>

\* A resume that marks the task pending and does not call processQueue.
ResumeDownload_NoQueue(l) ==
  /\ MayCall
  /\ tasks[l] # NoTask
  /\ ops' = ops + 1
  /\ tasks' = UpdateTask(tasks, l, [status |-> "pending"])
  /\ dbDownloads' = SaveUpdated(dbDownloads, tasks, l, [status |-> "pending"])
  /\ UNCHANGED <<taskOrder, initTasks, initOrder, aliased, activeDownloads, isPaused,
                 abortControllers, inv, nInv, calls, thrown, loaded, audioCache,
                 lectures, now, faults, evictLog, restarts, cancelled, enqOrder>>

ResumeDownload(l) ==
  /\ MayCall
  /\ tasks[l] # NoTask
  /\ ops' = ops + 1
  /\ tasks' = UpdateTask(tasks, l, [status |-> "pending"])
  /\ dbDownloads' = SaveUpdated(dbDownloads, tasks, l, [status |-> "pending"])
  /\ ProcessQueue(tasks', taskOrder, activeDownloads, isPaused, inv)
  /\ UNCHANGED <<taskOrder, initTasks, initOrder, aliased, activeDownloads, isPaused,
                 abortControllers, calls, thrown, loaded, audioCache, lectures, now,
                 faults, evictLog, restarts, cancelled, enqOrder>>

\* A retry that clears the error and keeps the recorded progress.
RetryUpdate_KeepProgress == [status |-> "pending", error |-> "none"]

RetryUpdate == [status |-> "pending", progress |-> 0, bytesDownloaded |-> 0,
                error |-> "none"]

RetryDownload(l) ==
  /\ MayCall
  /\ tasks[l] # NoTask
  /\ ops' = ops + 1
  /\ tasks' = UpdateTask(tasks, l, RetryUpdate)
  /\ dbDownloads' = SaveUpdated(dbDownloads, tasks, l, RetryUpdate)
  /\ ProcessQueue(tasks', taskOrder, activeDownloads, isPaused, inv)
  /\ UNCHANGED <<taskOrder, initTasks, initOrder, aliased, activeDownloads, isPaused,
                 abortControllers, calls, thrown, loaded, audioCache, lectures, now,
                 faults, evictLog, restarts, cancelled, enqOrder>>

\* pauseAll: every lecture with a bound controller is aborted and marked paused.
PauseAll ==
  LET bound == {l \in Lectures : abortControllers[l] # 0}
  IN /\ MayCall
     /\ ops' = ops + 1
     /\ isPaused' = TRUE
     /\ inv' = [i \in Invs |->
                 IF \E l \in bound : abortControllers[l] = i
                 THEN [inv[i] EXCEPT !.aborted = TRUE] ELSE inv[i]]
     /\ tasks' = [l \in Lectures |->
                   IF l \in bound THEN UpdateTask(tasks, l, [status |-> "paused"])[l]
                   ELSE tasks[l]]
     /\ dbDownloads' = [l \in Lectures |->
                   IF l \in bound
                   THEN SaveUpdated(dbDownloads, tasks, l, [status |-> "paused"])[l]
                   ELSE dbDownloads[l]]
     /\ UNCHANGED <<taskOrder, initTasks, initOrder, aliased, activeDownloads,
                    abortControllers, nInv, calls, thrown, loaded, audioCache, lectures,
                    now, faults, evictLog, restarts, cancelled, enqOrder>>

\* resumeAll: every paused task becomes pending, then processQueue.
\* A resumeAll that sets every unfinished task pending.
ResumeAll_ResetAll ==
  LET isP(l) == tasks[l].status \in {"paused", "failed", "downloading"}
  IN /\ MayCall
     /\ ops' = ops + 1
     /\ isPaused' = FALSE
     /\ tasks' = [l \in Lectures |->
                   IF isP(l) THEN [tasks[l] EXCEPT !.status = "pending"] ELSE tasks[l]]
     /\ dbDownloads' = [l \in Lectures |->
                   IF isP(l) THEN [tasks[l] EXCEPT !.status = "pending"]
                   ELSE dbDownloads[l]]
     /\ ProcessQueue(tasks', taskOrder, activeDownloads, FALSE, inv)
     /\ UNCHANGED <<taskOrder, initTasks, initOrder, aliased, activeDownloads,
                    abortControllers, calls, thrown, loaded, audioCache, lectures, now,
                    faults, evictLog, restarts, cancelled, enqOrder>>

ResumeAll ==
  LET isP(l) == tasks[l].status = "paused"
  IN /\ MayCall
     /\ ops' = ops + 1
     /\ isPaused' = FALSE
     /\ tasks' = [l \in Lectures |->
                   IF isP(l) THEN [tasks[l] EXCEPT !.status = "pending"] ELSE tasks[l]]
     /\ dbDownloads' = [l \in Lectures |->
                   IF isP(l) THEN [tasks[l] EXCEPT !.status = "pending"]
                   ELSE dbDownloads[l]]
     /\ ProcessQueue(tasks', taskOrder, activeDownloads, FALSE, inv)
     /\ UNCHANGED <<taskOrder, initTasks, initOrder, aliased, activeDownloads,
                    abortControllers, calls, thrown, loaded, audioCache, lectures, now,
                    faults, evictLog, restarts, cancelled, enqOrder>>

\* ------------------------------------------------------------ cancelDownload
\* Up to the first await: abort, drop the task and the slot, issue the delete
\* of the persisted task.
CancelDownloadBegin(l) ==
  /\ MayCallAsync
  /\ tasks[l] # NoTask \/ abortControllers[l] # 0 \/ audioCache[l] # NoBlob
  /\ ops' = ops + 1
  /\ inv' = Abort(inv, abortControllers[l])
  /\ tasks' = [tasks EXCEPT ![l] = NoTask]
  /\ taskOrder' = OrderDelete(taskOrder, l)
  /\ activeDownloads' = activeDownloads \ {l}
  /\ dbDownloads' = [dbDownloads EXCEPT ![l] = NoTask]
  /\ calls' = calls \cup {Call("cancelDownload", l, "deleteCachedAudio")}
  /\ enqOrder' = OrderDelete(enqOrder, l)
  /\ UNCHANGED <<initTasks, initOrder, aliased, isPaused, abortControllers, nInv,
                 thrown, loaded, audioCache, lectures, now, faults, evictLog, restarts,
                 cancelled>>

\* deleteDownloadTask has settled: deleteCachedAudio issues its delete, the
\* lecture record is updated and the call returns.
CancelDownloadDeleteCache(l) ==
  /\ Call("cancelDownload", l, "deleteCachedAudio") \in calls
  /\ calls' = calls \ {Call("cancelDownload", l, "deleteCachedAudio")}
  /\ audioCache' = [audioCache EXCEPT ![l] = NoBlob]
  /\ cancelled' = cancelled \cup {l}
  /\ UNCHANGED <<tasks, taskOrder, initTasks, initOrder, aliased, activeDownloads,
                 isPaused, abortControllers, inv, nInv, thrown, loaded, dbDownloads,
                 lectures, now, ops, faults, evictLog, restarts, enqOrder>>

\* ------------------------------------------------------------------ clearAll
\* Abort every bound controller, store.set(initialState), issue the clear of
\* the audio cache.  initialState holds the Map and the Set the store was
\* created with: the Map is the live one until loadExistingTasks replaces it,
\* the Set is the live one throughout.
ClearAllBegin ==
  /\ MayCallAsync
  /\ ops' = ops + 1
  /\ inv' = [i \in Invs |->
              IF \E l \in Lectures : abortControllers[l] = i
              THEN [inv[i] EXCEPT !.aborted = TRUE] ELSE inv[i]]
  /\ tasks' = IF aliased THEN tasks ELSE initTasks
  /\ taskOrder' = IF aliased THEN taskOrder ELSE initOrder
  /\ initTasks' = EmptyTasks
  /\ initOrder' = << >>
  /\ aliased' = TRUE
  /\ isPaused' = FALSE
  /\ audioCache' = EmptyCache
  /\ calls' = calls \cup {Call("clearAll", 0, "getAllDownloads")}
  /\ enqOrder' = << >>
  /\ UNCHANGED <<activeDownloads, abortControllers, nInv, thrown, loaded, dbDownloads,
                 lectures, now, faults, evictLog, restarts, cancelled>>

\* getAllDownloads, then deleteDownloadTask for each task read.
ClearAllDeleteTasks ==
  /\ Call("clearAll", 0, "getAllDownloads") \in calls
  /\ calls' = calls \ {Call("clearAll", 0, "getAllDownloads")}
  /\ dbDownloads' = EmptyTasks
  /\ UNCHANGED <<tasks, taskOrder, initTasks, initOrder, aliased, activeDownloads,
                 isPaused, abortControllers, inv, nInv, thrown, loaded, audioCache,
                 lectures, now, ops, faults, evictLog, restarts, cancelled, enqOrder>>

\* library.clearAll: storageManager.clearAllData, one transaction.
ClearAllData ==
  /\ MayCall
  /\ ops' = ops + 1
  /\ lectures' = {}
  /\ audioCache' = EmptyCache
  /\ dbDownloads' = EmptyTasks
  /\ UNCHANGED <<tasks, taskOrder, initTasks, initOrder, aliased, activeDownloads,
                 isPaused, abortControllers, inv, nInv, calls, thrown, loaded, now,
                 faults, evictLog, restarts, cancelled, enqOrder>>

\* The library stores the lecture records of a collection (saveLectures).
SaveLectures ==
  /\ MayCall
  /\ lectures # Lectures
  /\ ops' = ops + 1
  /\ lectures' = Lectures
  /\ UNCHANGED <<tasks, taskOrder, initTasks, initOrder, aliased, activeDownloads,
                 isPaused, abortControllers, inv, nInv, calls, thrown, loaded,
                 dbDownloads, audioCache, now, faults, evictLog, restarts, cancelled, enqOrder>>

\* ------------------------------------------------------------ cache reads
\* A cache read that hands out the blob and leaves the entry as it was.
GetCachedAudio_NoTouch(l) ==
  /\ MayCall
  /\ audioCache[l] # NoBlob
  /\ ops' = ops + 1
  /\ now' = now + 1
  /\ UNCHANGED <<tasks, taskOrder, initTasks, initOrder, aliased, activeDownloads,
                 isPaused, abortControllers, inv, nInv, calls, thrown, loaded,
                 dbDownloads, audioCache, lectures, faults, evictLog, restarts,
                 cancelled, enqOrder>>

\* getCachedAudio (playback): a hit rewrites the entry with lastAccessed = now.
GetCachedAudio(l) ==
  /\ MayCall
  /\ audioCache[l] # NoBlob
  /\ ops' = ops + 1
  /\ audioCache' = [audioCache EXCEPT ![l].lastAccessed = now]
  /\ now' = now + 1
  /\ UNCHANGED <<tasks, taskOrder, initTasks, initOrder, aliased, activeDownloads,
                 isPaused, abortControllers, inv, nInv, calls, thrown, loaded,
                 dbDownloads, lectures, faults, evictLog, restarts, cancelled, enqOrder>>

\* ------------------------------------------------------------------ eviction
\* a comes before b after allCached.sort((a, b) => a.lastAccessed - b.lastAccessed):
\* the sort is stable and getAll returns the entries in key order.
Older(C, a, b) ==
  \/ C[a].lastAccessed < C[b].lastAccessed
  \/ C[a].lastAccessed = C[b].lastAccessed /\ a < b

\* The bytes accumulated before the loop of evictToFreeSpace reaches entry l.
FreedBefore(C, l) ==
  LET RECURSIVE Sum(_)
      Sum(S) == IF S = {} THEN 0
                ELSE LET x == CHOOSE x \in S : TRUE IN C[x].size + Sum(S \ {x})
  IN Sum({k \in DOMAIN C : C[k] # NoBlob /\ Older(C, k, l)})

\* An eviction loop that breaks only once the target is exceeded.
ToDelete_BreakLate(C, targetBytes) ==
  {l \in DOMAIN C : C[l] # NoBlob /\ FreedBefore(C, l) <= targetBytes}

\* toDelete of evictToFreeSpace: entry l is pushed unless the loop broke before it.
ToDelete(C, targetBytes) ==
  {l \in DOMAIN C : C[l] # NoBlob /\ FreedBefore(C, l) < targetBytes}

\* An eviction that reports the requested number of bytes as freed.
FreedBytes_Requested(C, targetBytes) == targetBytes

\* freedBytes, the value evictToFreeSpace returns.
FreedBytes(C, targetBytes) ==
  LET D == ToDelete(C, targetBytes)
      RECURSIVE Sum(_)
      Sum(S) == IF S = {} THEN 0
                ELSE LET x == CHOOSE x \in S : TRUE IN C[x].size + Sum(S \ {x})
  IN Sum(D)

\* An eviction whose deletes are not in one transaction: only the oldest
\* selected entry is gone when the others can look.
EvictToFreeSpace_FirstOnly(C, targetBytes) ==
  [l \in DOMAIN C |->
     IF l \in ToDelete(C, targetBytes) /\ FreedBefore(C, l) = 0 THEN NoBlob ELSE C[l]]

\* What freeUpSpace returns after the eviction pass recorded in log:
\* freedBytes >= bytesToFree.
FreeUpSpaceReturn(log) == FreedBytes(log.before, log.target) >= log.target

EvictToFreeSpace(C, targetBytes) ==
  [l \in DOMAIN C |-> IF l \in ToDelete(C, targetBytes) THEN NoBlob ELSE C[l]]

\* freeUpSpace up to getAllCachedAudioIds: nothing to do when enough is
\* available, else evict.
FreeUpSpaceBegin(requiredBytes) ==
  LET bytesToFree == requiredBytes - Available(audioCache) + STORAGE_BUFFER_MB
  IN /\ MayCallAsync
     /\ ops' = ops + 1
     /\ IF Available(audioCache) >= requiredBytes
        THEN UNCHANGED <<audioCache, calls, evictLog>>
        ELSE /\ audioCache' = EvictToFreeSpace(audioCache, bytesToFree)
             /\ evictLog' = [ran |-> TRUE, target |-> bytesToFree,
                              before |-> audioCache, after |-> audioCache']
             /\ calls' = calls \cup {Call("freeUpSpace", 0, "getAllCachedAudioIds")}
     /\ UNCHANGED <<tasks, taskOrder, initTasks, initOrder, aliased, activeDownloads,
                    isPaused, abortControllers, inv, nInv, thrown, loaded, dbDownloads,
                    lectures, now, faults, restarts, cancelled, enqOrder>>

\* The cached ids arrive: every completed task without a blob is removed from
\* the store and from the persisted downloads.
FreeUpSpaceCollect ==
  LET gone == {l \in Lectures : tasks[l].status = "completed" /\ audioCache[l] = NoBlob}
  IN /\ Call("freeUpSpace", 0, "getAllCachedAudioIds") \in calls
     /\ calls' = calls \ {Call("freeUpSpace", 0, "getAllCachedAudioIds")}
     /\ tasks' = [l \in Lectures |-> IF l \in gone THEN NoTask ELSE tasks[l]]
     /\ taskOrder' = SelectSeq(taskOrder, LAMBDA l : l \notin gone)
     /\ dbDownloads' = [l \in Lectures |-> IF l \in gone THEN NoTask ELSE dbDownloads[l]]
     /\ enqOrder' = SelectSeq(enqOrder, LAMBDA l : l \notin gone)
     /\ UNCHANGED <<initTasks, initOrder, aliased, activeDownloads, isPaused,
                    abortControllers, inv, nInv, thrown, loaded, audioCache, lectures,
                    now, ops, faults, evictLog, restarts, cancelled>>

\* -------------------------------------------------------------------- reload
\* The page is reloaded: the module state is created anew and the coroutines of
\* the old page are gone, IndexedDB stays.  MaxOpsAfterReload API calls and no
\* failure follow a reload.
Restart ==
  /\ restarts < MaxRestarts
  /\ restarts' = restarts + 1
  /\ tasks' = EmptyTasks
  /\ taskOrder' = << >>
  /\ initTasks' = EmptyTasks
  /\ initOrder' = << >>
  /\ aliased' = TRUE
  /\ activeDownloads' = {}
  /\ isPaused' = FALSE
  /\ abortControllers' = [l \in Lectures |-> 0]
  /\ inv' = [i \in Invs |-> NoInv]
  /\ nInv' = 0
  /\ calls' = {}
  /\ thrown' = {}
  /\ loaded' = FALSE
  /\ ops' = MaxOps - MaxOpsAfterReload
  /\ cancelled' = {}
  /\ evictLog' = NoEviction
  /\ faults' = MaxFaults
  /\ UNCHANGED <<dbDownloads, audioCache, lectures, now, enqOrder>>

\* ------------------------------------------------- eviction as a function
\* The inventories and targets evictToFreeSpace is applied to on its own.
Inventories ==
  [Lectures -> {NoBlob} \cup [size : {k * ChunkMB : k \in 1..MaxBlobChunks},
                              lastAccessed : 1..MaxStamp]]
EvictTargets == {k * (ChunkMB \div 2) : k \in -1..MaxTargetSteps}

InitEvict ==
  /\ tasks = EmptyTasks
  /\ taskOrder = << >>
  /\ initTasks = EmptyTasks
  /\ initOrder = << >>
  /\ aliased = FALSE
  /\ activeDownloads = {}
  /\ isPaused = FALSE
  /\ abortControllers = [l \in Lectures |-> 0]
  /\ inv = [i \in Invs |-> NoInv]
  /\ nInv = 0
  /\ calls = {}
  /\ thrown = {}
  /\ loaded = TRUE
  /\ dbDownloads = EmptyTasks
  /\ audioCache \in Inventories
  /\ lectures = Lectures
  /\ now = MaxStamp + 1
  /\ ops = 0
  /\ faults = 0
  /\ evictLog = NoEviction
  /\ restarts = 0
  /\ cancelled = {}
  /\ enqOrder = << >>

\* One call of storageManager.evictToFreeSpace(targetBytes).
EvictPass(targetBytes) ==
  /\ ~evictLog.ran
  /\ audioCache' = EvictToFreeSpace(audioCache, targetBytes)
  /\ evictLog' = [ran |-> TRUE, target |-> targetBytes, before |-> audioCache,
                  after |-> audioCache']
  /\ UNCHANGED <<tasks, taskOrder, initTasks, initOrder, aliased, activeDownloads,
                 isPaused, abortControllers, inv, nInv, calls, thrown, loaded,
                 dbDownloads, lectures, now, ops, faults, restarts, cancelled, enqOrder>>

NextEvict == \E t \in EvictTargets : EvictPass(t)

SpecEvict == InitEvict /\ [][NextEvict]_vars

\* Playback reads of the cached blobs before and after the eviction pass.
NextRead ==
  \/ \E t \in EvictTargets : EvictPass(t)
  \/ \E l \in Lectures : GetCachedAudio(l)

SpecRead == InitEvict /\ [][NextRead]_vars

\* ------------------------------------- cache reads step by step
\* getCachedAudio up to the answer of db.get('audioCache', lectureId): a miss
\* returns undefined, a hit goes on to the put with the entry it has read.
GetCachedAudioGet(l) ==
  /\ MayCallAsync
  /\ ops' = ops + 1
  /\ calls' = IF audioCache[l] = NoBlob THEN calls
              ELSE calls \cup {[op |-> "getCachedAudio", lec |-> l, pc |-> "put",
                                cached |-> audioCache[l]]}
  /\ UNCHANGED <<tasks, taskOrder, initTasks, initOrder, aliased, activeDownloads,
                 isPaused, abortControllers, inv, nInv, thrown, loaded, dbDownloads,
                 audioCache, lectures, now, faults, evictLog, restarts, cancelled,
                 enqOrder>>

\* db.put('audioCache', {...cached, lastAccessed: Date.now()}) with the entry
\* read by the get, in a transaction of its own; the blob is returned.
GetCachedAudioPut(l) ==
  \E c \in calls :
    /\ c.op = "getCachedAudio" /\ c.lec = l /\ c.pc = "put"
    /\ audioCache' = [audioCache EXCEPT ![l] = [c.cached EXCEPT !.lastAccessed = now]]
    /\ now' = now + 1
    /\ calls' = calls \ {c}
    /\ UNCHANGED <<tasks, taskOrder, initTasks, initOrder, aliased, activeDownloads,
                   isPaused, abortControllers, inv, nInv, thrown, loaded, dbDownloads,
                   lectures, ops, faults, evictLog, restarts, cancelled, enqOrder>>

NextTouch ==
  \/ \E t \in EvictTargets : EvictPass(t)
  \/ \E l \in Lectures : GetCachedAudioGet(l)
  \/ \E l \in Lectures : GetCachedAudioPut(l)

SpecTouch == InitEvict /\ [][NextTouch]_vars

\* ------------------------------------- enqueue without a storage estimate
\* A host that answers navigator.storage.estimate(), with an empty audio cache.
HostEstimate == [quota |-> QuotaMB, usage |-> OtherUsedMB]

\* getStorageStats where navigator.storage.estimate does not exist: quota and
\* used keep the values they are declared with.
NoEstimate == [quota |-> 0, usage |-> 0]

\* getStorageStats: available = quota - used, audioSize summed over the cache.
GetStorageStats(C, estimate) ==
  [used |-> estimate.usage, quota |-> estimate.quota,
   available |-> estimate.quota - estimate.usage, audioSize |-> AudioSize(C)]

\* The fileSize of the lecture handed to queueDownload.
FileSizes == {0, ChunkMB, 2 * ChunkMB}

\* queueDownload from the answer of checkStorageAvailability on, on a host
\* without a storage estimate.
QueueDownloadAdmitNoEstimate(l, fileSize) ==
  LET c == Call("queueDownload", l, "stats")
      stats == GetStorageStats(audioCache, NoEstimate)
  IN /\ c \in calls
     /\ IF stats.available > fileSize + STORAGE_BUFFER_MB
        THEN /\ tasks' = [tasks EXCEPT ![l] = [NewTask(l) EXCEPT !.totalBytes = fileSize]]
             /\ taskOrder' = OrderSet(taskOrder, l)
             /\ dbDownloads' = [dbDownloads EXCEPT ![l] = tasks'[l]]
             /\ calls' = (calls \ {c}) \cup {Call("queueDownload", l, "save")}
             /\ enqOrder' = OrderSet(enqOrder, l)
             /\ UNCHANGED thrown
        ELSE /\ calls' = Advance(c, tasks)
             /\ thrown' = thrown \cup {l}
             /\ UNCHANGED <<tasks, taskOrder, dbDownloads, enqOrder>>
     /\ UNCHANGED <<initTasks, initOrder, aliased, activeDownloads, isPaused,
                    abortControllers, inv, nInv, loaded, audioCache, lectures, now, ops,
                    faults, evictLog, restarts, cancelled>>

\* ------------------------------------- enqueue with the declared size as input
\* What navigator.storage.estimate() answers when the audio cache holds C.
EstimateOf(C) == [quota |-> QuotaMB, usage |-> OtherUsedMB + AudioSize(C)]

\* queueDownload from the answer of checkStorageAvailability on, for a lecture
\* that declares fileSize.
QueueDownloadAdmitSized(l, fileSize) ==
  LET c == Call("queueDownload", l, "stats")
      stats == GetStorageStats(audioCache, EstimateOf(audioCache))
  IN /\ c \in calls
     /\ IF stats.available > fileSize + STORAGE_BUFFER_MB
        THEN /\ tasks' = [tasks EXCEPT ![l] = [NewTask(l) EXCEPT !.totalBytes = fileSize]]
             /\ taskOrder' = OrderSet(taskOrder, l)
             /\ dbDownloads' = [dbDownloads EXCEPT ![l] = tasks'[l]]
             /\ calls' = (calls \ {c}) \cup {Call("queueDownload", l, "save")}
             /\ enqOrder' = OrderSet(enqOrder, l)
             /\ UNCHANGED thrown
        ELSE /\ calls' = Advance(c, tasks)
             /\ thrown' = thrown \cup {l}
             /\ UNCHANGED <<tasks, taskOrder, dbDownloads, enqOrder>>
     /\ UNCHANGED <<initTasks, initOrder, aliased, activeDownloads, isPaused,
                    abortControllers, inv, nInv, loaded, audioCache, lectures, now, ops,
                    faults, evictLog, restarts, cancelled>>

\* queueDownload calls one after another (MaxCalls) once the startup load is
\* done; the transfers they start stay at their first await.
NextSequential ==
  \/ LoadExistingTasks
  \/ \E l \in Lectures : QueueDownloadBegin(l)
  \/ \E l \in Lectures, fileSize \in FileSizes : QueueDownloadAdmitSized(l, fileSize)
  \/ \E l \in Lectures : QueueDownloadFinish("queueDownload", l)

SpecSequential == Init /\ [][NextSequential]_vars

\* ------------------------------------------- calls before the startup load
\* queueDownload is called while loadExistingTasks, started by the
\* constructor, still awaits getAllDownloads.
QueueDownloadEarly(l) ==
  /\ ~loaded
  /\ ops < MaxEarlyCalls
  /\ Cardinality(calls) < MaxCalls
  /\ ops' = ops + 1
  /\ thrown' = thrown \ {l}
  /\ cancelled' = cancelled \ {l}
  /\ calls' = IF tasks[l].status \in {"completed", "downloading"} THEN calls
              ELSE calls \cup {Call("queueDownload", l, "stats")}
  /\ UNCHANGED <<tasks, taskOrder, initTasks, initOrder, aliased, activeDownloads,
                 isPaused, abortControllers, inv, nInv, loaded, dbDownloads, audioCache,
                 lectures, now, faults, evictLog, restarts, enqOrder>>

\* loadExistingTasks finishes with the answer to the getAll('downloads') it
\* issued at construction, ahead of every put of a later call: the downloads
\* store of a first start, which is empty.
LoadExistingTasksStale ==
  /\ ~loaded
  /\ loaded' = TRUE
  /\ tasks' = [l \in Lectures |-> LoadedTask(EmptyTasks[l])]
  /\ taskOrder' = KeyOrder(EmptyTasks)
  /\ initTasks' = IF aliased THEN tasks ELSE initTasks
  /\ initOrder' = IF aliased THEN taskOrder ELSE initOrder
  /\ aliased' = FALSE
  /\ UNCHANGED <<activeDownloads, isPaused, abortControllers, inv, nInv, calls, thrown,
                 dbDownloads, audioCache, lectures, now, ops, faults, evictLog, restarts,
                 cancelled, enqOrder>>

NextEarly ==
  \/ \E l \in Lectures : QueueDownloadEarly(l)
  \/ \E l \in Lectures : QueueDownloadAdmit("queueDownload", l)
  \/ \E l \in Lectures : QueueDownloadFinish("queueDownload", l)
  \/ \E i \in Invs : StartDownloadLecture(i)
  \/ \E i \in Invs : ReadChunk(i)
  \/ \E i \in Invs : ReadDone(i)
  \/ \E i \in Invs : CacheAudioDone(i)
  \/ \E i \in Invs : SaveLectureDone(i)
  \/ LoadExistingTasksStale

SpecEarly == Init /\ [][NextEarly]_vars

\* ------------------------------------- single calls on enumerated queues
\* The queues resumeAll and queueDownload are applied to on their own: every lecture has no task or
\* a task in one of the five statuses, with the fields startDownload and
\* pauseDownload leave in that status; a downloading task has its transfer in
\* flight, a completed one its blob.
Statuses == {"pending", "downloading", "paused", "failed", "completed"}

TaskIn(l, st) ==
  CASE st = "none" -> NoTask
    [] st = "pending" -> NewTask(l)
    [] st = "downloading" -> [NewTask(l) EXCEPT !.status = "downloading"]
    [] st = "paused" -> [NewTask(l) EXCEPT !.status = "paused",
                                           !.error = "Download cancelled"]
    [] st = "failed" -> [NewTask(l) EXCEPT !.status = "failed",
                                           !.error = "Failed to download"]
    [] st = "completed" -> [NewTask(l) EXCEPT !.status = "completed", !.progress = 100,
                                              !.bytesDownloaded = BodySize(l)]

\* The invocation that transfers lecture l when the lectures of D are downloading.
InvOf(D, l) == Cardinality({k \in D : k <= l})

InitQueue ==
  \E st \in [Lectures -> Statuses \cup {"none"}] :
    LET D == {l \in Lectures : st[l] = "downloading"}
        E == {l \in Lectures : st[l] # "none"}
    IN /\ Cardinality(D) <= MAX_CONCURRENT_DOWNLOADS
       /\ tasks = [l \in Lectures |-> TaskIn(l, st[l])]
       /\ taskOrder = SelectSeq([l \in Lectures |-> l], LAMBDA l : l \in E)
       /\ initTasks = EmptyTasks
       /\ initOrder = << >>
       /\ aliased = FALSE
       /\ activeDownloads = D
       /\ isPaused \in BOOLEAN
       /\ abortControllers = [l \in Lectures |-> IF l \in D THEN InvOf(D, l) ELSE 0]
       /\ inv = [i \in Invs |->
                   IF \E l \in D : InvOf(D, l) = i
                   THEN LET l == CHOOSE l \in D : InvOf(D, l) = i
                        IN [NoInv EXCEPT !.lec = l, !.pc = "read", !.size = BodySize(l),
                                         !.total = ContentLength(l)]
                   ELSE NoInv]
       /\ nInv = Cardinality(D)
       /\ calls = {}
       /\ thrown = {}
       /\ loaded = TRUE
       /\ dbDownloads = tasks
       /\ audioCache = [l \in Lectures |->
                          IF st[l] = "completed"
                          THEN [size |-> BodySize(l), lastAccessed |-> l]
                          ELSE NoBlob]
       /\ lectures = Lectures
       /\ now = NumLectures + 1
       /\ ops = 0
       /\ faults = 0
       /\ evictLog = NoEviction
       /\ restarts = 0
       /\ cancelled = {}
       /\ enqOrder = taskOrder

NextResumeAll == ResumeAll

SpecResumeAll == InitQueue /\ [][NextResumeAll]_vars

\* queueDownload calls, each run to its end.
NextQueueDownload ==
  \/ \E l \in Lectures : QueueDownloadBegin(l)
  \/ \E l \in Lectures : QueueDownloadAdmit("queueDownload", l)
  \/ \E l \in Lectures : QueueDownloadFinish("queueDownload", l)

SpecQueueDownload == InitQueue /\ [][NextQueueDownload]_vars

\* queueDownload on a host without a storage estimate.
NextNoEstimate ==
  \/ \E l \in Lectures : QueueDownloadBegin(l)
  \/ \E l \in Lectures, fileSize \in FileSizes : QueueDownloadAdmitNoEstimate(l, fileSize)

SpecNoEstimate == InitQueue /\ [][NextNoEstimate]_vars

\* ===================================================================== claims
Downloading == {l \in Lectures : tasks[l].status = "downloading"}
InFlight == {i \in Invs : inv[i].pc \in {"getLecture", "read", "cacheAudio", "saveLecture"}}
Cached(l) == audioCache[l] # NoBlob

\* C1: in every reachable state the number of tasks with status downloading is
\* at most MAX_CONCURRENT_DOWNLOADS.
C1_DownloadingWithinLimit == Cardinality(Downloading) <= MAX_CONCURRENT_DOWNLOADS

\* C2: at all times the number of startDownload invocations that have begun and
\* have not reached their finally block is at most MAX_CONCURRENT_DOWNLOADS.
C2_TransfersWithinLimit == Cardinality(InFlight) <= MAX_CONCURRENT_DOWNLOADS

\* C3: whenever a task has status completed, a cached blob for the same lecture
\* exists in the audioCache store.
C3_CompletedHasBlob == \A l \in Lectures : tasks[l].status = "completed" => Cached(l)

\* C4: for every task 0 <= bytesDownloaded, bytesDownloaded <= totalBytes when
\* totalBytes is known (positive), and a completed task has
\* bytesDownloaded = totalBytes.
C4_BytesWithinTotal ==
  \A l \in Lectures :
    tasks[l] # NoTask =>
      /\ 0 <= tasks[l].bytesDownloaded
      /\ tasks[l].totalBytes > 0 => tasks[l].bytesDownloaded <= tasks[l].totalBytes
      /\ tasks[l].status = "completed" => tasks[l].bytesDownloaded = tasks[l].totalBytes

\* The step in which loadExistingTasks finishes.
LoadStep == ~loaded /\ loaded'

\* C5: the startup load yields every task persisted with status downloading as
\* pending with progress 0, and leaves no task downloading without a transfer
\* in flight for it.
C5_Recovery ==
  [][LoadStep =>
       /\ \A l \in Lectures :
            dbDownloads[l].status = "downloading" =>
              tasks'[l].status = "pending" /\ tasks'[l].progress = 0
       /\ \A l \in Lectures :
            tasks'[l].status = "downloading" =>
              \E i \in Invs : inv'[i].lec = l /\ inv'[i].pc \in {"read", "cacheAudio", "saveLecture"}
    ]_vars

\* C5 witness: after a reload a record persisted as downloading with progress
\* made has been loaded as pending with progress 0.
C5_Witness ==
  /\ loaded
  /\ restarts > 0
  /\ \E l \in Lectures :
       /\ dbDownloads[l].status = "downloading"
       /\ dbDownloads[l].progress > 0
       /\ tasks[l].status = "pending"
       /\ tasks[l].progress = 0

\* C6 as stated: the startup load rewrites every persisted record with status
\* downloading, so that none is left in the downloads store when it finishes.
C6_StoreRewritten ==
  [][LoadStep => \A l \in Lectures : dbDownloads'[l].status # "downloading"]_vars

\* C6 as amended: the startup load resets the interrupted records in memory
\* only (pending, progress 0), leaves the downloads store as it was, and
\* promotes nothing itself, so the reset precedes the promotion of these tasks.
C6_ResetInMemoryOnly ==
  [][LoadStep =>
       /\ \A l \in Lectures :
            dbDownloads[l].status = "downloading" =>
              /\ tasks'[l] = [dbDownloads[l] EXCEPT !.status = "pending", !.progress = 0]
              /\ dbDownloads'[l] = dbDownloads[l]
       /\ Downloading' = {}
       /\ inv' = inv
    ]_vars

\* C6 witness: loaded after a reload, the store still says downloading while the
\* task in memory is pending and no transfer has been started.
C6_Witness ==
  /\ loaded
  /\ restarts > 0
  /\ InFlight = {}
  /\ \E l \in Lectures :
       /\ dbDownloads[l].status = "downloading"
       /\ tasks[l].status = "pending"
       /\ l \notin activeDownloads

\* What one eviction pass deleted and kept.
Deleted == {l \in Lectures : evictLog.before[l] # NoBlob /\ evictLog.after[l] = NoBlob}
Kept == {l \in Lectures : evictLog.before[l] # NoBlob /\ evictLog.after[l] # NoBlob}
SizeOf(S) ==
  LET RECURSIVE Sum(_)
      Sum(X) == IF X = {} THEN 0
                ELSE LET x == CHOOSE x \in X : TRUE
                     IN evictLog.before[x].size + Sum(X \ {x})
  IN Sum(S)

\* The inventory of the example: A, B, C of 10, 20, 30 MB, A the oldest.
ExampleInventory ==
  [l \in Lectures |->
     IF l <= 3 THEN [size |-> l * ChunkMB, lastAccessed |-> l] ELSE NoBlob]

\* C7: an eviction pass deletes an oldest-first prefix of the inventory, the
\* shortest one whose sizes reach the target (everything when none does), and
\* nothing for a target <= 0; for 10, 20, 30 MB and a target of 25 it deletes
\* exactly the two oldest.
C7_EvictionPrefix ==
  evictLog.ran =>
    /\ \A l \in Lectures : evictLog.after[l] \in {NoBlob, evictLog.before[l]}
    /\ evictLog.target <= 0 => Deleted = {}
    /\ \A d \in Deleted, k \in Kept :
         evictLog.before[d].lastAccessed <= evictLog.before[k].lastAccessed
    /\ SizeOf(Deleted) >= evictLog.target \/ Kept = {}
    /\ Deleted # {} =>
         \E d \in Deleted :
           /\ \A e \in Deleted :
                evictLog.before[e].lastAccessed <= evictLog.before[d].lastAccessed
           /\ SizeOf(Deleted) - evictLog.before[d].size < evictLog.target
    /\ (evictLog.before = ExampleInventory /\ evictLog.target = 5 * (ChunkMB \div 2)) =>
         Deleted = {1, 2}

\* C7 witness: the example has been evicted, A and B are gone and C is left.
C7_Witness ==
  /\ evictLog.ran
  /\ evictLog.before = ExampleInventory
  /\ evictLog.target = 5 * (ChunkMB \div 2)
  /\ audioCache = [ExampleInventory EXCEPT ![1] = NoBlob, ![2] = NoBlob]

\* C8: a queueDownload call is rejected only if the headroom is insufficient
\* even after the eviction of the other cached blobs.
C8_RejectOnlyAfterEviction ==
  [][\A l \in Lectures :
       (l \in thrown' /\ l \notin thrown) =>
         ~CheckStorageAvailability(
            [k \in Lectures |-> IF k = l THEN audioCache[l] ELSE NoBlob], FileSize(l))
    ]_vars

\* The step in which the storage statistics of a queueDownload of l arrive
\* (a reload drops the call instead).
AdmitStep(l) ==
  /\ restarts' = restarts
  /\ \E op \in QueueOps : Call(op, l, "stats") \in calls /\ Call(op, l, "stats") \notin calls'

\* C9: a queueDownload whose size exceeds available minus the buffer is
\* rejected, changes no task and starts no transfer; one whose size is below
\* available minus the buffer creates a pending task.
C9_BudgetCheck ==
  [][\A l \in Lectures :
       AdmitStep(l) =>
         /\ FileSize(l) > Available(audioCache) - STORAGE_BUFFER_MB =>
              /\ l \in thrown'
              /\ UNCHANGED <<tasks, taskOrder, dbDownloads, inv, nInv, activeDownloads>>
         /\ FileSize(l) < Available(audioCache) - STORAGE_BUFFER_MB =>
              /\ l \notin thrown'
              /\ tasks'[l] = NewTask(l)
              /\ dbDownloads'[l] = NewTask(l)
    ]_vars

\* C9 witness: a lecture has been rejected whose size exceeds available minus
\* the buffer, with blobs in the cache, and it has no task.
C9_Witness ==
  \E l \in thrown :
    /\ FileSize(l) > Available(audioCache) - STORAGE_BUFFER_MB
    /\ AudioSize(audioCache) > 0
    /\ tasks[l].status \notin {"pending", "downloading"}

\* C10: a task paused while its download is active stays paused and gets no
\* cached blob: no step turns a paused task completed or stores a blob for it.
C10_PauseLeavesPaused ==
  [][\A l \in Lectures :
       tasks[l].status = "paused" =>
         /\ tasks'[l].status # "completed"
         /\ ~Cached(l) => ~Cached(l)'
    ]_vars


\* The startDownload invocations of lecture l that have not returned.
InFlightFor(l) == {i \in InFlight : inv[i].lec = l}

\* C11: once cancelDownload(l) has returned and every startDownload of l has
\* settled, there is neither a task nor a cached blob for l, until l is
\* enqueued again.
C11_CancelRemovesAll ==
  \A l \in cancelled :
    InFlightFor(l) = {} => tasks[l] = NoTask /\ ~Cached(l)


\* C12: a call of processQueue starts no task that an earlier call has started
\* and that is unchanged since: no startDownload is begun for a pending task
\* while a startDownload of that task is still suspended before it has marked
\* the task downloading.
C12_ProcessQueueIdempotent ==
  [][\A i, j \in Invs :
       (inv[i].pc = "none" /\ inv'[i].pc = "getLecture") =>
         ~(/\ inv[j].pc = "getLecture"
           /\ inv[j].lec = inv'[i].lec
           /\ tasks[inv[j].lec].status = "pending"
           /\ tasks'[inv[j].lec] = tasks[inv[j].lec])
    ]_vars


Pending == {l \in Lectures : tasks[l].status = "pending"}

\* Nothing is running or about to run: the state stays as it is until the next
\* call of the public API.
Quiescent == loaded /\ calls = {} /\ InFlight = {}

\* C13: a pending task with a free slot is eventually promoted, so the queue
\* (not paused) never comes to rest with a pending task and a free slot.
C13_NoStarvedPending ==
  (Quiescent /\ ~isPaused /\ Cardinality(activeDownloads) < MAX_CONCURRENT_DOWNLOADS)
    => Pending = {}


\* A startDownload that has taken its slot (it is inside its try block).
Started(i) == inv[i].pc \in {"read", "cacheAudio", "saveLecture"}

\* C14: the step in which a started transfer ends, however it ends, releases
\* the slot of its lecture and runs processQueue on the state it leaves: the
\* tasks processQueue selects there get their startDownload.
C14_SlotReleasedQueueRun ==
  [][\A i \in Invs :
       (Started(i) /\ inv'[i].pc = "done" /\ restarts' = restarts) =>
         LET starts == QueueStarts(tasks', taskOrder', activeDownloads', isPaused')
         IN /\ inv[i].lec \notin activeDownloads'
            /\ abortControllers'[inv[i].lec] = 0
            /\ nInv' = nInv + Len(starts)
            /\ \A k \in 1..Len(starts) :
                 inv'[nInv + k] = [NoInv EXCEPT !.lec = starts[k], !.pc = "getLecture"]
    ]_vars

\* C14 witness: of three lectures queued together the first has completed and
\* left its slot, the second is downloading and the third, the last to get a
\* startDownload, has just been handed to it.
C14_Witness ==
  /\ restarts = 0
  /\ ops = QueueMultipleCost
  /\ calls = {}
  /\ tasks[1].status = "completed"
  /\ 1 \notin activeDownloads
  /\ tasks[2].status = "downloading"
  /\ \E j \in Invs : inv[j].lec = 2 /\ inv[j].pc = "read" /\ inv[j].loaded = 0
  /\ tasks[3].status = "pending"
  /\ nInv = 3
  /\ inv[3] = [NoInv EXCEPT !.lec = 3, !.pc = "getLecture"]


\* The place of lecture l in the order of enqueueing (0: not enqueued).
EnqueuedAt(l) ==
  IF \E k \in 1..Len(enqOrder) : enqOrder[k] = l
  THEN CHOOSE k \in 1..Len(enqOrder) : enqOrder[k] = l ELSE 0

\* The lectures for which the step begins a startDownload.
Promoted ==
  {inv'[i].lec : i \in {j \in Invs : inv[j].pc = "none" /\ inv'[j].pc = "getLecture"}}

\* C15: pending tasks are promoted in enqueue order, one per free slot: a step
\* promotes no more tasks than there are free slots, and leaves no pending task
\* behind whose task was created before that of a task it promotes.
C15_PromotedInEnqueueOrder ==
  [][/\ Promoted # {} =>
          /\ Cardinality(Promoted) <= MAX_CONCURRENT_DOWNLOADS - Cardinality(activeDownloads')
          /\ nInv' - nInv = Cardinality(Promoted)
     /\ \A s \in Promoted : \A p \in Pending' \ Promoted :
          (EnqueuedAt(p)' > 0 /\ EnqueuedAt(s)' > 0) => EnqueuedAt(s)' < EnqueuedAt(p)'
    ]_vars


\* C16: a lecture enqueued alone, with its record in place and nothing else
\* called or failing, is completed with bytesDownloaded = totalBytes, progress
\* 100 and its blob in the cache.
C16_SoleDownloadCompletes ==
  [][\A l \in Lectures :
       (/\ ops = 1 /\ ops' = 1 /\ faults' = 0 /\ restarts' = 0
        /\ \A k \in Lectures \ {l} : tasks[k] = NoTask
        /\ tasks[l].status = "downloading"
        /\ tasks'[l].status = "completed") =>
         /\ tasks'[l].bytesDownloaded = tasks'[l].totalBytes
         /\ tasks'[l].progress = 100
         /\ Cached(l)'
    ]_vars


\* The pending tasks that precede l in the iteration order of the task Map.
PendingBefore(T, ord, l) ==
  {p \in Lectures : /\ T[p].status = "pending"
                    /\ \E a, b \in 1..Len(ord) : ord[a] = p /\ ord[b] = l /\ a < b}

\* C17: a synchronous call that takes a paused task back to pending runs
\* processQueue, so that the task gets a startDownload when a slot is free for
\* it; and every startDownload begins its transfer with nothing loaded,
\* whatever the task recorded before.
C17_ResumeRestartsFromZero ==
  [][/\ \A l \in Lectures :
          (/\ ops' = ops + 1 /\ calls' = calls
           /\ tasks[l].status = "paused"
           /\ tasks'[l] = [tasks[l] EXCEPT !.status = "pending"]
           /\ ~isPaused'
           /\ Cardinality(PendingBefore(tasks', taskOrder', l))
                < MAX_CONCURRENT_DOWNLOADS - Cardinality(activeDownloads')) =>
             l \in Promoted
     /\ \A i \in Invs :
          (inv[i].pc = "getLecture" /\ inv'[i].pc = "read") => inv'[i].loaded = 0
    ]_vars

\* C17 witness: a download paused after its first chunk (the catch has recorded
\* 'Download cancelled') has been resumed and is downloading again, its new
\* transfer behind the bytes the task still shows.
C17_Witness ==
  \E l \in Lectures, i \in Invs :
    /\ tasks[l].status = "downloading"
    /\ tasks[l].error = "Download cancelled"
    /\ tasks[l].bytesDownloaded > 0
    /\ inv[i].lec = l
    /\ inv[i].pc = "read"
    /\ inv[i].loaded = 0
    /\ restarts = 0


\* C18: a synchronous call that takes a failed task back to pending and changes
\* more than its status (a resume changes the status alone) leaves the task
\* pending with progress 0, no bytes transferred and no error, keeps its total,
\* and runs processQueue, so that the task gets a startDownload when a slot is
\* free for it.
C18_RetryResets ==
  [][\A l \in Lectures :
       (/\ ops' = ops + 1 /\ calls' = calls
        /\ tasks[l].status = "failed"
        /\ tasks'[l].status = "pending"
        /\ tasks'[l] # [tasks[l] EXCEPT !.status = "pending"]) =>
          /\ tasks'[l] = [tasks[l] EXCEPT !.status = "pending", !.progress = 0,
                                          !.bytesDownloaded = 0, !.error = "none"]
          /\ dbDownloads'[l] = tasks'[l]
          /\ (/\ ~isPaused'
              /\ Cardinality(PendingBefore(tasks', taskOrder', l))
                   < MAX_CONCURRENT_DOWNLOADS - Cardinality(activeDownloads')) =>
                l \in Promoted
    ]_vars

\* C18 witness: the only task failed in its first attempt and is pending again
\* with nothing recorded and no error, a second startDownload spawned for it.
C18_Witness ==
  \E l \in Lectures :
    /\ restarts = 0 /\ faults = 1 /\ ops = 2 /\ calls = {}
    /\ \A k \in Lectures \ {l} : tasks[k] = NoTask
    /\ tasks[l] = NewTask(l)
    /\ inv[1].pc = "done"
    /\ nInv = 2
    /\ inv[2] = [NoInv EXCEPT !.lec = l, !.pc = "getLecture"]
    /\ activeDownloads = {}


\* C19: a step that belongs to no call of the API (no call is made, none
\* continues, no reload) leaves every failed task failed and starts no transfer
\* for it.
C19_NoAutomaticRetry ==
  [][\A l \in Lectures :
       (/\ tasks[l].status = "failed"
        /\ ops' = ops /\ calls' = calls /\ restarts' = restarts) =>
          /\ tasks'[l].status = "failed"
          /\ \A i \in Invs :
               (inv[i].lec = l /\ inv[i].pc = "getLecture") => inv'[i].pc # "read"
    ]_vars


\* The queueDownload calls a running queueMultiple has in flight.
InQueueMultiple(C) == {c \in C : c.op = "queueMultiple"}

\* C20: queueMultiple makes its queueDownload calls one at a time and in the
\* order of the list; when one of them throws (the storage check rejects the
\* lecture), queueMultiple goes on with the next lecture of the list instead of
\* ending there.
C20_QueueMultipleContinues ==
  [][/\ Cardinality(InQueueMultiple(calls')) <= 1
     /\ \A c \in InQueueMultiple(calls), d \in InQueueMultiple(calls') :
          \/ d = c
          \/ d.lec = c.lec /\ c.pc = "stats" /\ d.pc = "save"
          \/ d.lec > c.lec /\ d.pc = "stats"
     /\ \A l \in Lectures :
          LET c == Call("queueMultiple", l, "stats")
              k == NextToQueue(tasks, l)
          IN (/\ c \in calls /\ c \notin calls'
              /\ l \in thrown' /\ restarts' = restarts) =>
                /\ tasks' = tasks
                /\ k # 0 => calls' = (calls \ {c}) \cup {Call("queueMultiple", k, "stats")}
    ]_vars

\* C20 witness: within one queueMultiple an earlier lecture was rejected and a
\* later one has been admitted and is being saved.
C20_Witness ==
  \E l \in thrown, k \in Lectures :
    /\ k > l
    /\ Call("queueMultiple", k, "save") \in calls
    /\ tasks[l] = NoTask
    /\ tasks[k] = NewTask(k)


\* C21: when a transfer ends by its abort signal (the fetch or the read rejects
\* with an AbortError) and the task still exists, the task is left paused with
\* no error recorded.
C21_AbortLeavesNoError ==
  [][\A i \in Invs :
       (/\ inv[i].pc = "read" /\ inv[i].aborted /\ inv'[i].pc = "done"
        /\ restarts' = restarts
        /\ tasks'[inv[i].lec] # NoTask) =>
          /\ tasks'[inv[i].lec].status = "paused"
          /\ tasks'[inv[i].lec].error = "none"
    ]_vars

\* C22: a transfer that fails otherwise than by its abort signal (the fetch or
\* a read fails, the file URL is invalid, the put of the blob is refused)
\* leaves its task, when it still exists, failed with a message, the other
\* fields as they were and the record saved; no other task, no lecture record
\* and no cached blob changes.
C22_FailureMarksFailed ==
  [][(faults' = faults + 1 /\ restarts' = restarts) =>
       \E i \in Invs :
         LET l == inv[i].lec
         IN /\ inv[i].pc \in {"getLecture", "read"}
            /\ inv'[i].pc = "done"
            /\ tasks[l] = NoTask => tasks'[l] = NoTask
            /\ tasks[l] # NoTask =>
                 /\ tasks'[l].status = "failed"
                 /\ tasks'[l].error # "none"
                 /\ tasks'[l] = [tasks[l] EXCEPT !.status = "failed",
                                                 !.error = tasks'[l].error]
                 /\ dbDownloads'[l] = tasks'[l]
            /\ \A k \in Lectures \ {l} :
                 tasks'[k] = tasks[k] /\ dbDownloads'[k] = dbDownloads[k]
            /\ lectures' = lectures
            /\ audioCache' = audioCache
            /\ thrown' = thrown
    ]_vars

\* C22 witness: a transfer has failed after its first chunk; the task is failed
\* with the message of the error and holds no slot.
C22_Witness ==
  \E l \in Lectures :
    /\ restarts = 0 /\ faults = 1
    /\ tasks[l].status = "failed"
    /\ tasks[l].error = "Failed to download"
    /\ tasks[l].bytesDownloaded > 0
    /\ l \notin activeDownloads
    /\ ~Cached(l)

\* C23: when getLecture finds no record for the lecture of a startDownload, the
\* task (when it exists) is marked failed with 'Lecture not found' at once and
\* the invocation ends without binding a controller or taking a slot; no step
\* adds a lecture to the active downloads while its record is missing, and no
\* step of a startDownload marks its task downloading then.
C23_NotFoundNeverAdmitted ==
  [][/\ \A i \in Invs :
          LET l == inv[i].lec
          IN (/\ inv[i].pc = "getLecture" /\ inv'[i].pc # "getLecture"
              /\ l \notin lectures /\ restarts' = restarts) =>
                /\ inv'[i].pc = "done"
                /\ tasks[l] # NoTask =>
                     tasks'[l] = [tasks[l] EXCEPT !.status = "failed",
                                                  !.error = "Lecture not found"]
                /\ activeDownloads' = activeDownloads
                /\ abortControllers' = abortControllers
     /\ \A l \in Lectures \ lectures :
          /\ (tasks[l].status # "downloading" /\ ops' = ops /\ calls' = calls
              /\ restarts' = restarts) =>
               tasks'[l].status # "downloading"
          /\ l \notin activeDownloads => l \notin activeDownloads'
    ]_vars

\* C23 witness: a startDownload found no record for its lecture; the task is
\* failed with 'Lecture not found', holds no slot, and the record is still
\* missing.
C23_Witness ==
  \E l \in Lectures \ lectures :
    /\ tasks[l].status = "failed"
    /\ tasks[l].error = "Lecture not found"
    /\ l \notin activeDownloads
    /\ abortControllers[l] = 0
    /\ InFlightFor(l) = {}

Evicted == {l \in Lectures : evictLog.before[l] # NoBlob /\ evictLog.after[l] = NoBlob}

\* C25: when a freeUpSpace that has evicted blobs returns, no task is left, in
\* memory or in the persisted downloads, for a lecture whose blob the pass
\* deleted and that has no blob now.
C25_EvictedTasksCollected ==
  [][(/\ Call("freeUpSpace", 0, "getAllCachedAudioIds") \in calls
      /\ Call("freeUpSpace", 0, "getAllCachedAudioIds") \notin calls'
      /\ restarts' = restarts) =>
        \A l \in Evicted :
          ~Cached(l)' => tasks'[l] = NoTask /\ dbDownloads'[l] = NoTask
    ]_vars

\* C26: completed is terminal: as long as the task exists, the status of a
\* completed task changes only when a retry resets the task; pause, resume,
\* pauseAll and resumeAll leave it completed.
C26_CompletedTerminal ==
  [][\A l \in Lectures :
       (/\ restarts' = restarts
        /\ tasks[l] # NoTask /\ tasks'[l] # NoTask
        /\ tasks'[l].status # tasks[l].status
        /\ tasks[l].status = "completed") =>
          tasks'[l] = Merge(tasks[l], RetryUpdate)
    ]_vars

\* C27: over every step that leaves a task downloading, its progress stays
\* within 0..100 and does not decrease.
C27_ProgressMonotonic ==
  [][\A l \in Lectures :
       (/\ restarts' = restarts
        /\ tasks[l].status = "downloading"
        /\ tasks'[l].status = "downloading") =>
          /\ tasks'[l].progress \in 0..100
          /\ tasks'[l].progress >= tasks[l].progress
    ]_vars

\* C28: the step in which a transfer fails changes no other lecture's task,
\* controller or slot and no other startDownload in flight; the only
\* invocations it adds are startDownloads of pending tasks, as many as
\* processQueue finds slots for.
C28_FailureIsolated ==
  [][(faults' = faults + 1 /\ restarts' = restarts) =>
       \E i \in Invs :
         LET l == inv[i].lec
         IN /\ inv[i].pc \in {"getLecture", "read"}
            /\ inv'[i].pc = "done"
            /\ \A k \in Lectures \ {l} :
                 /\ tasks'[k] = tasks[k]
                 /\ abortControllers'[k] = abortControllers[k]
                 /\ (k \in activeDownloads') = (k \in activeDownloads)
            /\ \A j \in Invs \ {i} :
                 /\ inv[j].pc # "none" => inv'[j] = inv[j]
                 /\ (inv[j].pc = "none" /\ inv'[j].pc # "none") =>
                      /\ inv'[j] = [NoInv EXCEPT !.lec = inv'[j].lec, !.pc = "getLecture"]
                      /\ tasks[inv'[j].lec].status = "pending"
            /\ Cardinality(Promoted) <=
                 MAX_CONCURRENT_DOWNLOADS - Cardinality(activeDownloads')
    ]_vars

\* C28 witness: of three queued lectures the first has failed; the second is
\* still downloading with its transfer running and its slot held, and the
\* third has been handed to startDownload.
C28_Witness ==
  /\ restarts = 0 /\ faults = 1
  /\ tasks[1].status = "failed"
  /\ tasks[1].error = "Failed to download"
  /\ tasks[2].status = "downloading"
  /\ activeDownloads = {2}
  /\ \E j \in Invs : inv[j].lec = 2 /\ inv[j].pc = "read" /\ ~inv[j].aborted
                     /\ abortControllers[2] = j
  /\ tasks[3].status = "pending"
  /\ \E j \in Invs : inv[j] = [NoInv EXCEPT !.lec = 3, !.pc = "getLecture"]

\* C29: resumeAll sets every paused task to pending, keeping its other fields,
\* and leaves every other task (pending, downloading, completed, failed) and
\* its persisted record exactly as it was; it creates and removes no task.
C29_ResumeAllFrame ==
  [][\A l \in Lectures :
       IF tasks[l].status = "paused"
       THEN /\ tasks'[l] = [tasks[l] EXCEPT !.status = "pending"]
            /\ dbDownloads'[l] = tasks'[l]
       ELSE /\ tasks'[l] = tasks[l]
            /\ dbDownloads'[l] = dbDownloads[l]
    ]_vars

\* C29 witness: resumeAll has run on a queue with a paused, a failed and a
\* completed task: the paused one is pending and handed to startDownload, the
\* other two are as they were.
C29_Witness ==
  /\ ops = 1
  /\ ~isPaused
  /\ tasks[1] = [TaskIn(1, "paused") EXCEPT !.status = "pending"]
  /\ tasks[2] = TaskIn(2, "failed")
  /\ tasks[3] = TaskIn(3, "completed")
  /\ nInv = 1
  /\ inv[1] = [NoInv EXCEPT !.lec = 1, !.pc = "getLecture"]

\* C30: a queueDownload call for a lecture whose task is completed or
\* downloading returns at its entry: the step in which a queueDownload is
\* called either opens the call of a lecture whose task is neither completed
\* nor downloading or opens no call at all, and it changes no task, no
\* persisted record, no cached blob, no transfer and no slot; no call is ever
\* in progress for a lecture whose task was completed or downloading when it
\* was made.
C30_EnqueueNoOp ==
  [][(ops' = ops + 1) =>
       /\ \/ calls' = calls
          \/ \E l \in Lectures :
               /\ tasks[l].status \notin {"completed", "downloading"}
               /\ calls' = calls \cup {Call("queueDownload", l, "stats")}
       /\ (\A l \in Lectures : tasks[l].status \in {"completed", "downloading"}) =>
            calls' = calls
       /\ UNCHANGED <<tasks, taskOrder, dbDownloads, audioCache, evictLog, inv, nInv,
                      activeDownloads, abortControllers, isPaused>>
    ]_vars

\* C30 witness: every lecture's task was completed or downloading, a
\* queueDownload has been called and has returned, and the queue is as it was.
C30_Witness ==
  /\ ops = 1
  /\ calls = {}
  /\ thrown = {}
  /\ \E l \in Lectures : tasks[l] = TaskIn(l, "completed")
  /\ \E l \in Lectures : tasks[l] = TaskIn(l, "downloading")
  /\ \A l \in Lectures : tasks[l].status \in {"completed", "downloading"}
  /\ dbDownloads = tasks
  /\ nInv = Cardinality(Downloading)
  /\ ~evictLog.ran

TransfersOf(l) == {i \in Invs : inv[i].lec = l /\ Started(i) /\ ~inv[i].aborted}

\* C33: at most one transfer is in flight per lecture at any time.
C33_OneTransferPerLecture ==
  \A l \in Lectures : Cardinality(TransfersOf(l)) <= 1

\* C34: when an aborted startDownload ends while a newer startDownload of the
\* same lecture is transferring with its controller bound, the task's status,
\* the lecture's slot and the newer controller are left as they are.
C34_SupersededHarmless ==
  [][\A i, j \in Invs :
       LET l == inv[i].lec
       IN (/\ i # j /\ inv[j].lec = l
           /\ Started(i) /\ inv[i].aborted /\ inv'[i].pc = "done"
           /\ Started(j) /\ ~inv[j].aborted /\ abortControllers[l] = j
           /\ tasks[l].status = "downloading"
           /\ restarts' = restarts) =>
             /\ tasks'[l].status = "downloading"
             /\ l \in activeDownloads'
             /\ abortControllers'[l] = j
    ]_vars

\* C35: the step in which loadExistingTasks finishes leaves every task that
\* exists at that moment present and unchanged.
C35_LoadKeepsEarlyTasks ==
  [][LoadStep =>
       \A l \in Lectures : tasks[l] # NoTask => tasks'[l] = tasks[l]
    ]_vars

\* C36: once an eviction pass has deleted a blob and no cache read is pending,
\* the blob is not in the cache (no download runs in this specification).
C36_DeletedStaysDeleted ==
  (evictLog.ran /\ calls = {}) => \A l \in Deleted : ~Cached(l)

\* C37: while the queue is paused (after pauseAll, before resumeAll) no step
\* starts a download for a pending task and no pending task becomes downloading.
C37_NoPromotionWhilePaused ==
  [][(isPaused /\ isPaused') =>
       /\ Promoted = {}
       /\ \A l \in Lectures :
            tasks[l].status = "pending" => tasks'[l].status # "downloading"
    ]_vars

DeclaredOpen ==
  LET RECURSIVE Sum(_)
      Sum(S) == IF S = {} THEN 0
                ELSE LET l == CHOOSE x \in S : TRUE
                     IN tasks[l].totalBytes + Sum(S \ {l})
  IN Sum({l \in Lectures : tasks[l].status \notin {"none", "completed"}})

\* C39: with queueDownload calls made one after another and nothing cached in
\* between, the declared sizes of the admitted tasks that have not completed
\* add up to no more than the headroom above the safety buffer.
C39_SequentialWithinBudget ==
  audioCache = EmptyCache =>
    DeclaredOpen <= Available(EmptyCache) - STORAGE_BUFFER_MB

Next ==
  \/ LoadExistingTasks
  \/ \E l \in Lectures : QueueDownloadBegin(l)
  \/ QueueMultipleBegin
  \/ \E op \in QueueOps, l \in Lectures : QueueDownloadAdmit(op, l)
  \/ \E op \in QueueOps, l \in Lectures : QueueDownloadFinish(op, l)
  \/ \E i \in Invs : StartDownloadLecture(i)
  \/ \E i \in Invs : StartDownloadInvalidUrl(i)
  \/ \E i \in Invs : ReadChunk(i)
  \/ \E i \in Invs : TransferAbort(i)
  \/ \E i \in Invs : TransferFail(i)
  \/ \E i \in Invs : ReadDone(i)
  \/ \E i \in Invs : CacheAudioFail(i)
  \/ \E i \in Invs : CacheAudioDone(i)
  \/ \E i \in Invs : SaveLectureDone(i)
  \/ \E l \in Lectures : PauseDownload(l)
  \/ \E l \in Lectures : ResumeDownload(l)
  \/ \E l \in Lectures : RetryDownload(l)
  \/ PauseAll
  \/ ResumeAll
  \/ \E l \in Lectures : CancelDownloadBegin(l)
  \/ \E l \in Lectures : CancelDownloadDeleteCache(l)
  \/ ClearAllBegin
  \/ ClearAllDeleteTasks
  \/ ClearAllData
  \/ SaveLectures
  \/ \E l \in Lectures : GetCachedAudio(l)
  \/ \E r \in FreeRequests : FreeUpSpaceBegin(r)
  \/ FreeUpSpaceCollect
  \/ Restart

Spec == Init /\ [][Next]_vars
====
